---- MODULE Spec2Model ----
(***************************************************************************)
(* Organization directory REST API: the read-only query handlers of        *)
(* app/api (organizations, buildings, activities) over a database snapshot *)
(* of buildings, activities and organizations, with the geo helpers of     *)
(* app/core/geo_utils.py and Activity.get_all_descendants of               *)
(* app/models/models.py.  Spec serves a sequence of requests one at a      *)
(* time, SpecMalformed does so over activities that are not a forest, and  *)
(* SpecConcurrent serves several queries at the same time.                 *)
(*                                                                         *)
(* Optional query parameters are modelled as sets: {} is None and {v} is   *)
(* the value v.  Floats are modelled in fixed point: an angle, a sine or a *)
(* cosine x is the integer x * Scale; coordinates are whole degrees and    *)
(* distances are whole metres.  Strings are sequences of one-character     *)
(* strings.                                                                *)
(***************************************************************************)
EXTENDS Integers, Sequences, FiniteSets, TLC

VARIABLES buildings, activities, organizations, request, response, pc,
          running

vars ==
    <<buildings, activities, organizations, request, response, pc, running>>

(***************************************************************************)
(* Bounds of the model.                                                    *)
(***************************************************************************)
\* number of rows of the activities table; their ids are 1..NumActivities
NumActivities == 5

ActivityIds == 1 .. NumActivities

\* ids a request may name: every activity and one id that no activity has
QueryActivityIds == 1 .. (NumActivities + 1)

\* stand-in for the interpreter's recursion limit: deeper than any forest
\* over NumActivities activities
RecursionLimit == NumActivities + 2

None == {}

Some(v) == {v}

Opt(S) == {None} \cup {Some(v) : v \in S}

Val(o) == CHOOSE v \in o : TRUE

(***************************************************************************)
(* Fixed-point arithmetic standing for the floats of geo_utils.py.         *)
(***************************************************************************)
Scale == 10000

PI == 31416

\* Earth's radius in metres
R == 6371000

\* division truncating toward zero
Quot(a, b) == IF a >= 0 THEN a \div b ELSE -((-a) \div b)

\* product of two fixed-point numbers
Mul(x, y) == Quot(x * y, Scale)

\* product of a whole number too large for Mul and a fixed-point number
BigMul(x, y) == (x \div Scale) * y + Quot((x % Scale) * y, Scale)

\* math.radians of a whole number of degrees
radians(d) == Quot(d * PI, 180)

\* math.sin for |x| <= pi/2, by its Taylor series
sin(x) ==
    LET x2 == Mul(x, x)
        t3 == Quot(Mul(x, x2), 6)
        t5 == Quot(Mul(t3, x2), 20)
        t7 == Quot(Mul(t5, x2), 42)
        t9 == Quot(Mul(t7, x2), 72)
    IN  x - t3 + t5 - t7 + t9

\* math.cos for |x| <= pi/2, by its Taylor series
cos(x) ==
    LET x2 == Mul(x, x)
        t2 == Quot(x2, 2)
        t4 == Quot(Mul(t2, x2), 12)
        t6 == Quot(Mul(t4, x2), 30)
        t8 == Quot(Mul(t6, x2), 56)
        t10 == Quot(Mul(t8, x2), 90)
    IN  Scale - t2 + t4 - t6 + t8 - t10

RECURSIVE isqrt(_, _, _)
\* the largest r in lo..hi with r * r <= n
isqrt(n, lo, hi) ==
    IF lo >= hi THEN lo
    ELSE LET mid == (lo + hi + 1) \div 2
         IN  IF mid * mid <= n THEN isqrt(n, mid, hi)
                               ELSE isqrt(n, lo, mid - 1)

\* math.sqrt of a fixed-point number in 0..1
sqrt(x) == isqrt(x * Scale, 0, Scale)

\* arctangent of a fixed-point number in 0..1: halve the angle, then the series
atan(t) ==
    LET u == Quot(t * Scale,
                  Scale + isqrt((Scale + Mul(t, t)) * Scale, 0, 2 * Scale))
        u2 == Mul(u, u)
        u3 == Mul(u, u2)
        u5 == Mul(u3, u2)
        u7 == Mul(u5, u2)
        u9 == Mul(u7, u2)
    IN  2 * (u - Quot(u3, 3) + Quot(u5, 5) - Quot(u7, 7) + Quot(u9, 9))

\* math.atan2 for y >= 0 and x >= 0, the only quadrant haversine uses
atan2(y, x) ==
    IF y = 0 THEN 0
    ELSE IF x = 0 THEN PI \div 2
    ELSE IF y <= x THEN atan(Quot(y * Scale, x))
    ELSE PI \div 2 - atan(Quot(x * Scale, y))

\* the distance with the latitudes added where the code subtracts them
haversine_distance_summed(lat1, lon1, lat2, lon2) ==
    LET lat1_rad == radians(lat1)
        lat2_rad == radians(lat2)
        delta_lat == radians(lat2 + lat1)
        delta_lon == radians(lon2 - lon1)
        sdlat == sin(Quot(delta_lat, 2))
        sdlon == sin(Quot(delta_lon, 2))
        a == Mul(sdlat, sdlat)
             + Mul(Mul(cos(lat1_rad), cos(lat2_rad)), Mul(sdlon, sdlon))
        c == 2 * atan2(sqrt(a), sqrt(Scale - a))
    IN  BigMul(R, c)

\* great-circle distance in metres between two points given in degrees
haversine_distance(lat1, lon1, lat2, lon2) ==
    LET lat1_rad == radians(lat1)
        lat2_rad == radians(lat2)
        delta_lat == radians(lat2 - lat1)
        delta_lon == radians(lon2 - lon1)
        sdlat == sin(Quot(delta_lat, 2))
        sdlon == sin(Quot(delta_lon, 2))
        a == Mul(sdlat, sdlat)
             + Mul(Mul(cos(lat1_rad), cos(lat2_rad)), Mul(sdlon, sdlon))
        c == 2 * atan2(sqrt(a), sqrt(Scale - a))
    IN  BigMul(R, c)

\* math.degrees, rounded to the nearest whole degree
degrees(x) == Quot(2 * x * 180 + (IF x >= 0 THEN PI ELSE -PI), 2 * PI)

\* math.asin of a fixed-point number in 0..1
asin(x) == atan2(x, sqrt(Scale - Mul(x, x)))

\* the box around a point for a radius in whole metres, radius >= 0 and
\* |lat| <= 90.  math.asin raises ValueError when its argument is over 1.
\* math.cos of plus or minus pi/2 is 6.1e-17 in floats, never 0, so at a
\* pole the quotient is 0 for a radius of 0 and over 1 for any other
\* radius, and nothing divides by zero
calculate_bounding_box(lat, lon, radius) ==
    LET radius_rad == Quot(radius * 100, R \div 100)
        lat_rad == radians(lat)
        lon_rad == radians(lon)
        s_radius == sin(radius_rad)
        c_lat == IF lat = 90 \/ lat = -90 THEN 0 ELSE cos(lat_rad)
        over_one == IF c_lat = 0 THEN s_radius > 0
                    ELSE Quot(s_radius * Scale, c_lat) > Scale
        delta_lon == IF c_lat = 0 THEN 0
                     ELSE asin(Quot(s_radius * Scale, c_lat))
    IN  IF over_one
        THEN [ok |-> FALSE, value |-> "ValueError"]
        ELSE [ok |-> TRUE,
              value |-> [lat_min |-> degrees(lat_rad - radius_rad),
                         lat_max |-> degrees(lat_rad + radius_rad),
                         lon_min |-> degrees(lon_rad - delta_lon),
                         lon_max |-> degrees(lon_rad + delta_lon)]]

\* the range check on a box put in order first: min and max swapped when
\* min > max
is_in_bounding_box_reordered(lat, lon, lat_min, lat_max, lon_min, lon_max) ==
    /\ (IF lat_min <= lat_max THEN lat_min ELSE lat_max) <= lat
    /\ lat <= (IF lat_min <= lat_max THEN lat_max ELSE lat_min)
    /\ (IF lon_min <= lon_max THEN lon_min ELSE lon_max) <= lon
    /\ lon <= (IF lon_min <= lon_max THEN lon_max ELSE lon_min)

\* inclusive range check on both axes
is_in_bounding_box(lat, lon, lat_min, lat_max, lon_min, lon_max) ==
    /\ lat_min <= lat
    /\ lat <= lat_max
    /\ lon_min <= lon
    /\ lon <= lon_max

(***************************************************************************)
(* The database snapshot: table rows in table order.                       *)
(***************************************************************************)
\* the taxonomy of the test fixture: 1 is the root, i \div 2 the parent of i
\* (Food -> Meat, Dairy; Meat -> Beef, Pork)
TreeActivities ==
    [i \in ActivityIds |->
        [id |-> i, parent_id |-> IF i = 1 THEN None ELSE Some(i \div 2)]]

\* two roots as in the seed data, each the head of a chain: i - 2 is the
\* parent of i
ChainActivities ==
    [i \in ActivityIds |->
        [id |-> i, parent_id |-> IF i <= 2 THEN None ELSE Some(i - 2)]]

\* one root, the last row, and every child in a row before its parent's:
\* 1 and 2 under 3, 3 and 4 under 5, and so on
LateParentActivities ==
    [i \in ActivityIds |->
        [id |-> i,
         parent_id |-> IF i = NumActivities THEN None
                       ELSE IF 2 * ((i + 1) \div 2) + 1 >= NumActivities
                       THEN Some(NumActivities)
                       ELSE Some(2 * ((i + 1) \div 2) + 1)]]

Buildings ==
    << [id |-> 1, latitude |-> 0, longitude |-> 0],
       [id |-> 2, latitude |-> 0, longitude |-> 30],
       [id |-> 3, latitude |-> 30, longitude |-> 30] >>

\* organizations over TreeActivities; the last row names a building that
\* has no row (SQLite does not enforce the foreign key)
TreeOrganizations ==
    << [id |-> 1, name |-> <<"A", "b">>, building_id |-> 1,
        activities |-> {2, 4}],
       [id |-> 2, name |-> <<"b", "a">>, building_id |-> 2,
        activities |-> {3}],
       [id |-> 3, name |-> <<"a", "_", "b">>, building_id |-> 1,
        activities |-> {1, 2, 3}],
       [id |-> 4, name |-> <<"B">>, building_id |-> 3,
        activities |-> {}],
       [id |-> 5, name |-> <<"b", "%">>, building_id |-> 2,
        activities |-> {5}],
       [id |-> 6, name |-> <<"A">>, building_id |-> 9,
        activities |-> {4}] >>

\* organizations over ChainActivities, rows not in id order
ChainOrganizations ==
    << [id |-> 3, name |-> <<"B", "a">>, building_id |-> 3,
        activities |-> {5}],
       [id |-> 1, name |-> <<"a">>, building_id |-> 2,
        activities |-> {}],
       [id |-> 2, name |-> <<"_">>, building_id |-> 1,
        activities |-> {1}],
       [id |-> 5, name |-> <<"b">>, building_id |-> 1,
        activities |-> {4, 5}],
       [id |-> 4, name |-> <<"A", "B">>, building_id |-> 2,
        activities |-> {2, 4}] >>

Snapshots ==
    { [activities |-> TreeActivities, organizations |-> TreeOrganizations],
      [activities |-> ChainActivities, organizations |-> ChainOrganizations],
      [activities |-> LateParentActivities,
       organizations |-> TreeOrganizations] }

\* activities tables that break the forest invariant, which the schema
\* does not enforce on parent_id (and SQLite enforces no foreign key).
\* Activity 2 names a parent that has no row; 4 is its child
OrphanActivities ==
    [i \in ActivityIds |->
        [id |-> i,
         parent_id |-> IF i = 1 THEN None
                       ELSE IF i = 2 THEN Some(NumActivities + 1)
                       ELSE Some(i - 2)]]

\* activity 2 is its own parent; 4 is its child
SelfParentActivities ==
    [i \in ActivityIds |->
        [id |-> i,
         parent_id |-> IF i = 1 THEN None
                       ELSE IF i = 2 THEN Some(2)
                       ELSE Some(i - 2)]]

\* activities 2 and 3 are each other's parent; 4 is a child of 2
CycleActivities ==
    [i \in ActivityIds |->
        [id |-> i,
         parent_id |-> IF i = 1 THEN None
                       ELSE IF i = 2 THEN Some(3)
                       ELSE IF i = 3 THEN Some(2)
                       ELSE Some(i - 2)]]

MalformedSnapshots ==
    { [activities |-> OrphanActivities, organizations |-> TreeOrganizations],
      [activities |-> SelfParentActivities,
       organizations |-> TreeOrganizations],
      [activities |-> CycleActivities, organizations |-> TreeOrganizations] }

(***************************************************************************)
(* Requests: the query parameters of the routes and of the geo helpers.    *)
(***************************************************************************)
NameValues == { <<>>, <<"a">>, <<"_">> }

\* the radii: negative, zero, and the distance from the centre to building 2
RadiusValues == { -100, 0, haversine_distance(0, 0, 0, 30) }

GeoParams ==
    [ lat : Opt({0}), lon : Opt({0}), radius : Opt(RadiusValues),
      lat_min : Opt({0, 20}), lat_max : Opt({10}),
      lon_min : Opt({10}), lon_max : Opt({0, 30}) ]

Query(kind, building_id, activity_id, name, geo, organization_id) ==
    [ kind |-> kind, building_id |-> building_id,
      activity_id |-> activity_id, name |-> name,
      lat |-> geo.lat, lon |-> geo.lon, radius |-> geo.radius,
      lat_min |-> geo.lat_min, lat_max |-> geo.lat_max,
      lon_min |-> geo.lon_min, lon_max |-> geo.lon_max,
      organization_id |-> organization_id, include_tree |-> FALSE ]

NoGeo ==
    [ lat |-> None, lon |-> None, radius |-> None, lat_min |-> None,
      lat_max |-> None, lon_min |-> None, lon_max |-> None ]

OrganizationsRequests ==
    { Query("get_organizations", b, a, n, g, None) :
        b \in Opt({1, 7}), a \in Opt(QueryActivityIds), n \in Opt(NameValues),
        g \in GeoParams }

OrganizationRequests ==
    { Query("get_organization", None, None, None, NoGeo, Some(i)) :
        i \in 1 .. 7 }

\* FastAPI ignores query parameters a route does not declare
BuildingsRequests ==
    { Query("get_buildings", None, None, None, g, None) : g \in GeoParams }

\* GET /activities with include_tree false (the default) or true
ActivitiesRequests ==
    { [Query("get_activities", None, None, None, NoGeo, None)
          EXCEPT !.include_tree = t] : t \in BOOLEAN }

\* points on the sphere in whole degrees, the poles and the date line
\* included
Latitudes == {-90, 0, 45, 89, 90}

Longitudes == {-180, 0, 30, 180}

\* calls of haversine_distance; the fixed-point sine covers longitudes
\* that differ by at most 180 degrees
HaversineRequests ==
    {q \in [kind : {"haversine_distance"}, lat1 : Latitudes,
            lon1 : Longitudes, lat2 : Latitudes, lon2 : Longitudes] :
        /\ q.lon2 - q.lon1 <= 180
        /\ q.lon1 - q.lon2 <= 180}

\* radii in metres: none, 1 km, 100 km, 2000 km
BoxRadii == {0, 1000, 100000, 2000000}

\* calls of calculate_bounding_box
BoundingBoxRequests ==
    [kind : {"calculate_bounding_box"}, lat : Latitudes, lon : {0, 30},
     radius : BoxRadii]

Requests ==
    OrganizationsRequests \cup OrganizationRequests \cup BuildingsRequests
        \cup ActivitiesRequests \cup HaversineRequests
        \cup BoundingBoxRequests

\* the requests sent against the malformed tables: the searches without
\* geo parameters and the other routes
MalformedRequests ==
    {q \in OrganizationsRequests \cup OrganizationRequests
            \cup BuildingsRequests \cup ActivitiesRequests :
        /\ q.lat = None /\ q.lon = None /\ q.radius = None
        /\ q.lat_min = None /\ q.lat_max = None
        /\ q.lon_min = None /\ q.lon_max = None}
      \cup HaversineRequests \cup BoundingBoxRequests

NoResponse == [status |-> 0, body |-> <<>>]

\* no request is being served
NoRequest == [kind |-> "none"]

(***************************************************************************)
(* Activity.get_all_descendants and the handlers.                          *)
(***************************************************************************)
\* Activity.children: the rows whose parent_id is id, in table order
children(acts, id) == SelectSeq(acts, LAMBDA a : a.parent_id = Some(id))

RECURSIVE get_all_descendants(_, _, _)
RECURSIVE extend_children(_, _, _, _)
\* get_all_descendants without the descent: the activity alone
get_all_descendants_self_only(acts, id, depth) ==
    [ok |-> TRUE, ids |-> <<id>>]

\* get_all_descendants that stops after one level: the activity and its
\* direct children
get_all_descendants_one_level(acts, id, depth) ==
    [ok |-> TRUE,
     ids |-> <<id>> \o [k \in DOMAIN children(acts, id) |->
                            children(acts, id)[k].id]]

\* the ids of the activity and of its descendants, depth first; ok is FALSE
\* when the recursion passes the interpreter's limit (RecursionError)
get_all_descendants(acts, id, depth) ==
    IF depth > RecursionLimit
    THEN [ok |-> FALSE, ids |-> <<>>]
    ELSE extend_children(acts, children(acts, id), <<id>>, depth)

\* the loop appending the child's id after the child's own list, which
\* already holds it
extend_children_twice(acts, kids, descendants, depth) ==
    IF kids = <<>>
    THEN [ok |-> TRUE, ids |-> descendants]
    ELSE LET sub == get_all_descendants(acts, Head(kids).id, depth + 1)
         IN  IF ~sub.ok
             THEN sub
             ELSE extend_children(acts, Tail(kids),
                                  descendants \o sub.ids
                                      \o <<Head(kids).id>>,
                                  depth)

\* the loop returning from inside its body: only the first child is
\* descended into
extend_children_first_only(acts, kids, descendants, depth) ==
    IF kids = <<>>
    THEN [ok |-> TRUE, ids |-> descendants]
    ELSE LET sub == get_all_descendants(acts, Head(kids).id, depth + 1)
         IN  IF ~sub.ok
             THEN sub
             ELSE [ok |-> TRUE, ids |-> descendants \o sub.ids]

\* the loop over self.children: descendants.extend(child.get_all_descendants())
extend_children(acts, kids, descendants, depth) ==
    IF kids = <<>>
    THEN [ok |-> TRUE, ids |-> descendants]
    ELSE LET sub == get_all_descendants(acts, Head(kids).id, depth + 1)
         IN  IF ~sub.ok
             THEN sub
             ELSE extend_children(acts, Tail(kids), descendants \o sub.ids,
                                  depth)

\* the helper raising instead of returning [] when no activity has the id
get_activity_with_descendants_raising(acts, activity_id) ==
    LET found == SelectSeq(acts, LAMBDA a : a.id = activity_id)
    IN  IF found = <<>>
        THEN [ok |-> FALSE, ids |-> <<>>]
        ELSE get_all_descendants(acts, Head(found).id, 0)

\* the helper without the test for a missing activity: it answers with
\* the id it was given
get_activity_with_descendants_unchecked(acts, activity_id) ==
    get_all_descendants(acts, activity_id, 0)

get_activity_with_descendants(acts, activity_id) ==
    LET found == SelectSeq(acts, LAMBDA a : a.id = activity_id)
    IN  IF found = <<>>
        THEN [ok |-> TRUE, ids |-> <<>>]
        ELSE get_all_descendants(acts, Head(found).id, 0)

\* str.lower on one character of the alphabet
lower(ch) == IF ch = "A" THEN "a" ELSE IF ch = "B" THEN "b" ELSE ch

RECURSIVE ilike(_, _)
\* SQL ILIKE: % matches any run of characters, _ any one character, every
\* other character matches itself in either case
ilike(s, pattern) ==
    IF pattern = <<>> THEN s = <<>>
    ELSE IF Head(pattern) = "%"
         THEN \/ ilike(s, Tail(pattern))
              \/ (s # <<>> /\ ilike(Tail(s), pattern))
    ELSE IF s = <<>> THEN FALSE
    ELSE /\ \/ Head(pattern) = "_"
            \/ lower(Head(pattern)) = lower(Head(s))
         /\ ilike(Tail(s), Tail(pattern))

\* org.building: the row of the organization's building
building(bld, org) ==
    bld[CHOOSE i \in DOMAIN bld : bld[i].id = org.building_id]

\* the query without the join: every organization row
join_building_missing(bld, orgs) == orgs

\* db.query(Organization).join(Building): an inner join
join_building(bld, orgs) ==
    SelectSeq(orgs, LAMBDA o : \E i \in DOMAIN bld : bld[i].id = o.building_id)

\* the radius condition written on truthiness, "if lat and lon and radius":
\* a zero counts as absent
RadiusActive_truthy(q) ==
    /\ q.lat # None /\ q.lon # None /\ q.radius # None
    /\ Val(q.radius) # 0

\* lat is not None and lon is not None and radius is not None
RadiusActive(q) == q.lat # None /\ q.lon # None /\ q.radius # None

\* all four of lat_min, lat_max, lon_min, lon_max are not None
BoxActive(q) ==
    q.lat_min # None /\ q.lat_max # None /\ q.lon_min # None /\ q.lon_max # None

\* the radius loop with an exclusive bound: distance < radius
radius_filter_exclusive(bld, orgs, lat, lon, radius) ==
    SelectSeq(orgs, LAMBDA o :
        haversine_distance(lat, lon, building(bld, o).latitude,
                           building(bld, o).longitude) < radius)

\* the radius loop with the comparison turned round: distance >= radius
radius_filter_inverted(bld, orgs, lat, lon, radius) ==
    SelectSeq(orgs, LAMBDA o :
        haversine_distance(lat, lon, building(bld, o).latitude,
                           building(bld, o).longitude) >= radius)

\* the radius loop comparing with abs(radius)
radius_filter_abs(bld, orgs, lat, lon, radius) ==
    SelectSeq(orgs, LAMBDA o :
        haversine_distance(lat, lon, building(bld, o).latitude,
                           building(bld, o).longitude)
            <= (IF radius < 0 THEN -radius ELSE radius))

\* the loop that appends the organizations within the radius
radius_filter(bld, orgs, lat, lon, radius) ==
    SelectSeq(orgs, LAMBDA o :
        haversine_distance(lat, lon, building(bld, o).latitude,
                           building(bld, o).longitude) <= radius)

\* the list comprehension over is_in_bounding_box
box_filter(bld, orgs, lat_min, lat_max, lon_min, lon_max) ==
    SelectSeq(orgs, LAMBDA o :
        is_in_bounding_box(building(bld, o).latitude,
                           building(bld, o).longitude,
                           lat_min, lat_max, lon_min, lon_max))

\* query.filter(Organization.building_id == building_id)
building_filter(orgs, building_id) ==
    SelectSeq(orgs, LAMBDA o : o.building_id = building_id)

RECURSIVE activity_filter_join(_, _)
\* the activity filter written as a join on the link table: one row for
\* each link of an organization to one of activity_ids
activity_filter_join(orgs, activity_ids) ==
    IF orgs = <<>> THEN <<>>
    ELSE LET links == SelectSeq(activity_ids,
                                LAMBDA id : id \in Head(orgs).activities)
         IN  [k \in DOMAIN links |-> Head(orgs)]
                 \o activity_filter_join(Tail(orgs), activity_ids)

\* query.filter(Organization.activities.any(Activity.id.in_(activity_ids))):
\* an EXISTS subquery, one row for each organization that has such a link
activity_filter(orgs, activity_ids) ==
    SelectSeq(orgs, LAMBDA o :
        \E k \in DOMAIN activity_ids : activity_ids[k] \in o.activities)

\* query.filter(Organization.name.ilike(f"%{name}%"))
name_filter(orgs, name) ==
    SelectSeq(orgs, LAMBDA o : ilike(o.name, <<"%">> \o name \o <<"%">>))

\* the geo filters with a radius that defaults to 0 when only lat and lon
\* are given
geo_filters_default_radius(bld, orgs, q) ==
    LET in_radius ==
            IF q.lat # None /\ q.lon # None
            THEN radius_filter(bld, orgs, Val(q.lat), Val(q.lon),
                               IF q.radius = None THEN 0 ELSE Val(q.radius))
            ELSE orgs
    IN  IF BoxActive(q)
        THEN box_filter(bld, in_radius, Val(q.lat_min), Val(q.lat_max),
                        Val(q.lon_min), Val(q.lon_max))
        ELSE in_radius

\* the geo filters with the box on an elif: ignored when the radius mode
\* is active
geo_filters_radius_only(bld, orgs, q) ==
    IF RadiusActive(q)
    THEN radius_filter(bld, orgs, Val(q.lat), Val(q.lon), Val(q.radius))
    ELSE IF BoxActive(q)
    THEN box_filter(bld, orgs, Val(q.lat_min), Val(q.lat_max),
                    Val(q.lon_min), Val(q.lon_max))
    ELSE orgs

\* the geo filters applied to the rows query.all() returned
geo_filters(bld, orgs, q) ==
    LET in_radius ==
            IF RadiusActive(q)
            THEN radius_filter(bld, orgs, Val(q.lat), Val(q.lon),
                               Val(q.radius))
            ELSE orgs
    IN  IF BoxActive(q)
        THEN box_filter(bld, in_radius, Val(q.lat_min), Val(q.lat_max),
                        Val(q.lon_min), Val(q.lon_max))
        ELSE in_radius

\* the call of get_activity_with_descendants that the handler makes when
\* activity_id is given
resolve_activity(acts, q) ==
    IF q.activity_id # None
    THEN get_activity_with_descendants(acts, Val(q.activity_id))
    ELSE [ok |-> TRUE, ids |-> <<>>]

\* the query of the handler and its geo loops, given the outcome of
\* resolve_activity
filter_organizations(bld, orgs, q, found) ==
    LET query == join_building(bld, orgs)
        by_building ==
            IF q.building_id # None
            THEN building_filter(query, Val(q.building_id))
            ELSE query
        activity_ids == found.ids
        by_activity ==
            IF q.activity_id # None /\ activity_ids # <<>>
            THEN activity_filter(by_building, activity_ids)
            ELSE by_building
        by_name ==
            IF q.name # None /\ Val(q.name) # <<>>
            THEN name_filter(by_activity, Val(q.name))
            ELSE by_activity
    IN  IF ~found.ok
        THEN [status |-> 500, body |-> <<>>]
        ELSE [status |-> 200, body |-> geo_filters(bld, by_name, q)]

\* GET /organizations
get_organizations(bld, acts, orgs, q) ==
    filter_organizations(bld, orgs, q, resolve_activity(acts, q))

\* the lookup answering an empty success where it should raise
get_organization_empty_success(bld, orgs, organization_id) ==
    LET found == SelectSeq(orgs, LAMBDA o : o.id = organization_id)
    IN  IF found = <<>>
        THEN [status |-> 200, body |-> <<>>]
        ELSE [status |-> 200, body |-> <<Head(found)>>]

\* GET /organizations/{organization_id}
get_organization(bld, orgs, organization_id) ==
    LET found == SelectSeq(orgs, LAMBDA o : o.id = organization_id)
    IN  IF found = <<>>
        THEN [status |-> 404, body |-> <<>>]
        ELSE [status |-> 200, body |-> <<Head(found)>>]

\* GET /buildings
get_buildings(bld) == [status |-> 200, body |-> bld]

RECURSIVE from_orm(_, _, _)
\* ActivityTreeSchema.from_orm(activity): the schema object read from the
\* attributes of the row, its children attribute included, so the nested
\* children are read the same way; ok is FALSE when the reading never
\* comes to an end (a cycle of children).  children holds, for each nested
\* object, the id of the activity it was read from
from_orm(acts, id, depth) ==
    IF depth > RecursionLimit
    THEN [ok |-> FALSE, children |-> <<>>]
    ELSE LET kids == children(acts, id)
         IN  [ok |-> \A k \in DOMAIN kids :
                        from_orm(acts, kids[k].id, depth + 1).ok,
              children |-> [k \in DOMAIN kids |-> kids[k].id]]

RECURSIVE link_activities(_, _, _, _)
\* the loop with every node put at the front of its list
link_activities_prepending(rest, ids, roots, kids) ==
    IF rest = <<>>
    THEN [roots |-> roots, children |-> kids]
    ELSE LET activity == Head(rest)
         IN  IF activity.parent_id = None
             THEN link_activities(Tail(rest), ids,
                                  <<activity.id>> \o roots, kids)
             ELSE IF Val(activity.parent_id) \in ids
             THEN link_activities(Tail(rest), ids, roots,
                      [kids EXCEPT ![Val(activity.parent_id)] =
                          <<activity.id>> \o @])
             ELSE link_activities(Tail(rest), ids, roots, kids)

\* the loop over activities: a parentless activity is appended to the
\* roots, one whose parent is in the map to that parent's children
link_activities(rest, ids, roots, kids) ==
    IF rest = <<>>
    THEN [roots |-> roots, children |-> kids]
    ELSE LET activity == Head(rest)
         IN  IF activity.parent_id = None
             THEN link_activities(Tail(rest), ids,
                                  Append(roots, activity.id), kids)
             ELSE IF Val(activity.parent_id) \in ids
             THEN link_activities(Tail(rest), ids, roots,
                      [kids EXCEPT ![Val(activity.parent_id)] =
                          Append(@, activity.id)])
             ELSE link_activities(Tail(rest), ids, roots, kids)

\* build_activity_tree without the reset of children: the linking starts
\* from the child lists that from_orm read from the rows
build_activity_tree_without_reset(acts) ==
    LET ids == {acts[i].id : i \in DOMAIN acts}
        activity_map == [id \in ids |-> from_orm(acts, id, 0)]
        attached == [id \in ids |-> activity_map[id].children]
        linked == link_activities(acts, ids, <<>>, attached)
    IN  IF \E id \in ids : ~activity_map[id].ok
        THEN [ok |-> FALSE, roots |-> <<>>, children |-> attached]
        ELSE [ok |-> TRUE, roots |-> linked.roots,
              children |-> linked.children]

\* build_activity_tree: the forest as the ids of the root nodes in order
\* and, for each node of activity_map, the ids of its child nodes in order
build_activity_tree(acts) ==
    LET ids == {acts[i].id : i \in DOMAIN acts}
        activity_map == [id \in ids |-> from_orm(acts, id, 0)]
        reset == [id \in ids |-> <<>>]
        linked == link_activities(acts, ids, <<>>, reset)
    IN  IF \E id \in ids : ~activity_map[id].ok
        THEN [ok |-> FALSE, roots |-> <<>>, children |-> reset]
        ELSE [ok |-> TRUE, roots |-> linked.roots,
              children |-> linked.children]

\* GET /activities
get_activities(acts, include_tree) ==
    IF include_tree
    THEN LET tree == build_activity_tree(acts)
         IN  IF tree.ok
             THEN [status |-> 200,
                   body |-> [roots |-> tree.roots,
                             children |-> tree.children]]
             ELSE [status |-> 500, body |-> <<>>]
    ELSE [status |-> 200, body |-> acts]

(***************************************************************************)
(* The state machine: a request arrives against a snapshot and its handler *)
(* answers it.                                                             *)
(***************************************************************************)
Init ==
    /\ buildings = Buildings
    /\ \E s \in Snapshots :
        /\ activities = s.activities
        /\ organizations = s.organizations
    /\ request \in Requests
    /\ response = NoResponse
    /\ pc = "request"
    /\ running = <<>>

GetOrganizations ==
    /\ pc = "request"
    /\ request.kind = "get_organizations"
    /\ response' = get_organizations(buildings, activities, organizations,
                                     request)
    /\ pc' = "done"
    /\ UNCHANGED <<buildings, activities, organizations, request, running>>

GetOrganization ==
    /\ pc = "request"
    /\ request.kind = "get_organization"
    /\ response' = get_organization(buildings, organizations,
                                    Val(request.organization_id))
    /\ pc' = "done"
    /\ UNCHANGED <<buildings, activities, organizations, request, running>>

GetBuildings ==
    /\ pc = "request"
    /\ request.kind = "get_buildings"
    /\ response' = get_buildings(buildings)
    /\ pc' = "done"
    /\ UNCHANGED <<buildings, activities, organizations, request, running>>

\* the handler with the reset of children applied to the rows themselves,
\* which detaches every child from its parent
GetActivities_detaching ==
    /\ pc = "request"
    /\ request.kind = "get_activities"
    /\ response' = get_activities(activities, request.include_tree)
    /\ activities' =
          IF request.include_tree
          THEN [i \in DOMAIN activities |->
                   [activities[i] EXCEPT !.parent_id = None]]
          ELSE activities
    /\ pc' = "done"
    /\ UNCHANGED <<buildings, organizations, request, running>>

GetActivities ==
    /\ pc = "request"
    /\ request.kind = "get_activities"
    /\ response' = get_activities(activities, request.include_tree)
    /\ pc' = "done"
    /\ UNCHANGED <<buildings, activities, organizations, request, running>>

\* a call of geo_utils.haversine_distance; a library call has no status
HaversineDistance ==
    /\ pc = "request"
    /\ request.kind = "haversine_distance"
    /\ response' = [status |-> 0,
                    body |-> haversine_distance(request.lat1, request.lon1,
                                                request.lat2, request.lon2)]
    /\ pc' = "done"
    /\ UNCHANGED <<buildings, activities, organizations, request, running>>

\* a call of geo_utils.calculate_bounding_box
CalculateBoundingBox ==
    /\ pc = "request"
    /\ request.kind = "calculate_bounding_box"
    /\ response' = [status |-> 0,
                    body |-> calculate_bounding_box(request.lat, request.lon,
                                                    request.radius)]
    /\ pc' = "done"
    /\ UNCHANGED <<buildings, activities, organizations, request, running>>

\* the response is delivered and the server waits for the next request
Deliver ==
    /\ pc = "done"
    /\ request' = NoRequest
    /\ response' = NoResponse
    /\ pc' = "idle"
    /\ UNCHANGED <<buildings, activities, organizations, running>>

\* the next request of the sequence arrives
Arrive ==
    /\ pc = "idle"
    /\ request' \in Requests
    /\ pc' = "request"
    /\ UNCHANGED <<buildings, activities, organizations, response, running>>

Next ==
    \/ Deliver
    \/ Arrive
    \/ GetOrganizations
    \/ GetOrganization
    \/ GetBuildings
    \/ GetActivities
    \/ HaversineDistance
    \/ CalculateBoundingBox

Spec == Init /\ [][Next]_vars

\* the same handlers over an activities table that is not a forest
InitMalformed ==
    /\ buildings = Buildings
    /\ \E s \in MalformedSnapshots :
        /\ activities = s.activities
        /\ organizations = s.organizations
    /\ request \in MalformedRequests
    /\ response = NoResponse
    /\ pc = "request"
    /\ running = <<>>

SpecMalformed == InitMalformed /\ [][Next]_vars

(***************************************************************************)
(* Queries served at the same time over one snapshot.  Each query has the  *)
(* locals of its handler call; the steps of different queries interleave.  *)
(* The search takes two steps (resolving the activity, then the query and  *)
(* the geo loops) and the tree assembly one step for each pass of its      *)
(* linking loop.                                                           *)
(***************************************************************************)
\* number of queries in flight
NumQueries == 2

QueryIds == 1 .. NumQueries

\* the requests of the concurrent queries: both forms of the activities
\* list, searches by a known, an unknown and no activity, lookups of a
\* known and an unknown organization, the buildings list
ConcurrentRequests ==
    ActivitiesRequests
      \cup {Query("get_organizations", None, a, None, NoGeo, None) :
               a \in Opt({1, NumActivities + 1})}
      \cup {Query("get_organization", None, None, None, NoGeo, Some(i)) :
               i \in {1, 7}}
      \cup {Query("get_buildings", None, None, None, NoGeo, None)}

\* a handler call that has not started: its request and its empty locals
NewQuery(r) ==
    [request |-> r, pc |-> "request", response |-> NoResponse,
     found |-> [ok |-> TRUE, ids |-> <<>>],
     rest |-> <<>>, roots |-> <<>>, kids |-> <<>>]

\* a pass of the linking loop in which the node map is one map shared by
\* all the assemblies: the child is appended in every assembly under way
link_step_shared_map(run, q) ==
    LET ids == {activities[i].id : i \in DOMAIN activities}
    IN  [p \in DOMAIN run |->
            IF p = q \/ run[p].pc = "linking"
            THEN LET linked == link_activities(<<Head(run[q].rest)>>, ids,
                                               run[p].roots, run[p].kids)
                 IN  [run[p] EXCEPT
                         !.rest = IF p = q THEN Tail(@) ELSE @,
                         !.roots = IF p = q THEN linked.roots ELSE @,
                         !.kids = linked.children]
            ELSE run[p]]

\* one pass of the linking loop of query q, on the locals of q
link_step(run, q) ==
    LET ids == {activities[i].id : i \in DOMAIN activities}
        linked == link_activities(<<Head(run[q].rest)>>, ids,
                                  run[q].roots, run[q].kids)
    IN  [run EXCEPT ![q].rest = Tail(@),
                    ![q].roots = linked.roots,
                    ![q].kids = linked.children]

\* get_organizations up to the return of get_activity_with_descendants
StartSearch(q) ==
    /\ running[q].pc = "request"
    /\ running[q].request.kind = "get_organizations"
    /\ running' = [running EXCEPT
                      ![q].found = resolve_activity(activities,
                                                    running[q].request),
                      ![q].pc = "filtering"]
    /\ UNCHANGED <<buildings, activities, organizations, request, response,
                   pc>>

\* get_organizations from query.all() to its return
FinishSearch(q) ==
    /\ running[q].pc = "filtering"
    /\ running' = [running EXCEPT
                      ![q].response =
                          filter_organizations(buildings, organizations,
                                               running[q].request,
                                               running[q].found),
                      ![q].pc = "done"]
    /\ UNCHANGED <<buildings, activities, organizations, request, response,
                   pc>>

\* get_organization
ServeLookup(q) ==
    /\ running[q].pc = "request"
    /\ running[q].request.kind = "get_organization"
    /\ running' = [running EXCEPT
                      ![q].response =
                          get_organization(buildings, organizations,
                              Val(running[q].request.organization_id)),
                      ![q].pc = "done"]
    /\ UNCHANGED <<buildings, activities, organizations, request, response,
                   pc>>

\* get_buildings
ServeBuildings(q) ==
    /\ running[q].pc = "request"
    /\ running[q].request.kind = "get_buildings"
    /\ running' = [running EXCEPT ![q].response = get_buildings(buildings),
                                  ![q].pc = "done"]
    /\ UNCHANGED <<buildings, activities, organizations, request, response,
                   pc>>

\* get_activities without the tree
ServeActivities(q) ==
    /\ running[q].pc = "request"
    /\ running[q].request.kind = "get_activities"
    /\ ~running[q].request.include_tree
    /\ running' = [running EXCEPT
                      ![q].response = get_activities(activities, FALSE),
                      ![q].pc = "done"]
    /\ UNCHANGED <<buildings, activities, organizations, request, response,
                   pc>>

\* build_activity_tree up to its linking loop: the nodes are built and
\* their children reset
StartTree(q) ==
    /\ running[q].pc = "request"
    /\ running[q].request.kind = "get_activities"
    /\ running[q].request.include_tree
    /\ LET ids == {activities[i].id : i \in DOMAIN activities}
       IN  IF \E id \in ids : ~from_orm(activities, id, 0).ok
           THEN running' = [running EXCEPT
                               ![q].response = [status |-> 500,
                                                body |-> <<>>],
                               ![q].pc = "done"]
           ELSE running' = [running EXCEPT
                               ![q].rest = activities,
                               ![q].roots = <<>>,
                               ![q].kids = [id \in ids |-> <<>>],
                               ![q].pc = "linking"]
    /\ UNCHANGED <<buildings, activities, organizations, request, response,
                   pc>>

\* one pass of the linking loop
LinkOne(q) ==
    /\ running[q].pc = "linking"
    /\ running[q].rest # <<>>
    /\ running' = link_step(running, q)
    /\ UNCHANGED <<buildings, activities, organizations, request, response,
                   pc>>

\* the loop is over: build_activity_tree and the handler return
ReturnTree(q) ==
    /\ running[q].pc = "linking"
    /\ running[q].rest = <<>>
    /\ running' = [running EXCEPT
                      ![q].response =
                          [status |-> 200,
                           body |-> [roots |-> running[q].roots,
                                     children |-> running[q].kids]],
                      ![q].pc = "done"]
    /\ UNCHANGED <<buildings, activities, organizations, request, response,
                   pc>>

\* the response is delivered and another request takes the place
NextQuery(q) ==
    /\ running[q].pc = "done"
    /\ \E r \in ConcurrentRequests :
          running' = [running EXCEPT ![q] = NewQuery(r)]
    /\ UNCHANGED <<buildings, activities, organizations, request, response,
                   pc>>

NextConcurrent ==
    \E q \in QueryIds :
        \/ StartSearch(q)
        \/ FinishSearch(q)
        \/ ServeLookup(q)
        \/ ServeBuildings(q)
        \/ ServeActivities(q)
        \/ StartTree(q)
        \/ LinkOne(q)
        \/ ReturnTree(q)
        \/ NextQuery(q)

InitConcurrent ==
    /\ buildings = Buildings
    /\ \E s \in Snapshots :
        /\ activities = s.activities
        /\ organizations = s.organizations
    /\ request = NoRequest
    /\ response = NoResponse
    /\ pc = "idle"
    /\ running \in [QueryIds -> {NewQuery(r) : r \in ConcurrentRequests}]

SpecConcurrent == InitConcurrent /\ [][NextConcurrent]_vars

(***************************************************************************)
(* Vocabulary of the properties, stated without the handlers' helpers.     *)
(***************************************************************************)
Range(s) == {s[i] : i \in DOMAIN s}

\* the organization search has answered
Searched == pc = "done" /\ request.kind = "get_organizations"

\* the response of the search to the request q on the current snapshot
Search(q) == get_organizations(buildings, activities, organizations, q)

ActivityExists(id) == \E i \in DOMAIN activities : activities[i].id = id

ParentOf(id) ==
    activities[CHOOSE i \in DOMAIN activities : activities[i].id = id].parent_id

RECURSIVE IsAncestorOrSelf(_, _, _)
\* a is d or is reached from d by at most fuel parent links
IsAncestorOrSelf(a, d, fuel) ==
    \/ a = d
    \/ /\ fuel > 0
       /\ ActivityExists(d)
       /\ ParentOf(d) # None
       /\ IsAncestorOrSelf(a, Val(ParentOf(d)), fuel - 1)

\* the descendant closure of an activity: itself and all below it
Closure(a) ==
    {d \in ActivityIds :
        ActivityExists(a) /\ IsAncestorOrSelf(a, d, NumActivities)}

\* all three parameters of the radius mode are given
RadiusGiven(q) == None \notin {q.lat, q.lon, q.radius}

\* all four parameters of the bounding-box mode are given
BoxGiven(q) == None \notin {q.lat_min, q.lat_max, q.lon_min, q.lon_max}

NoActivity(q) == [q EXCEPT !.activity_id = None]

NoRadius(q) == [q EXCEPT !.lat = None, !.lon = None, !.radius = None]

NoBox(q) ==
    [q EXCEPT !.lat_min = None, !.lat_max = None, !.lon_min = None,
              !.lon_max = None]

\* the coordinates of the building of an organization the search returned
LatOf(o) == building(buildings, o).latitude

LonOf(o) == building(buildings, o).longitude

\* sub occurs in s, letters compared without case
ContainsIgnoreCase(s, sub) ==
    \E i \in 0 .. (Len(s) - Len(sub)) :
        \A k \in 1 .. Len(sub) : lower(s[i + k]) = lower(sub[k])

(***************************************************************************)
(* C1: a search with an activity_id that no activity of the snapshot has   *)
(* succeeds with zero organizations, whatever the other predicates are.    *)
(* The handler skips the activity filter when the closure is empty, so     *)
(* this is violated.                                                       *)
(***************************************************************************)
C1_UnknownActivityReturnsEmpty ==
    (Searched /\ request.activity_id # None
              /\ ~ActivityExists(Val(request.activity_id)))
        => response = [status |-> 200, body |-> <<>>]

(***************************************************************************)
(* C2: for an activity_id of the snapshot the search returns exactly the   *)
(* organizations that the same search without activity_id returns and that *)
(* have an activity in the closure of activity_id.                         *)
(***************************************************************************)
C2_ActivityMatchesClosure ==
    (Searched /\ request.activity_id # None
              /\ ActivityExists(Val(request.activity_id)))
        => /\ response.status = 200
           /\ response.body =
                SelectSeq(Search(NoActivity(request)).body, LAMBDA o :
                    o.activities \cap Closure(Val(request.activity_id)) # {})

\* an organization is returned only through a descendant two or more levels
\* below the queried activity, and a tagged organization of another branch
\* is left out
C2_Witness ==
    /\ Searched
    /\ request.activity_id # None
    /\ ActivityExists(Val(request.activity_id))
    /\ \E o \in Range(response.body) :
        \A t \in o.activities \cap Closure(Val(request.activity_id)) :
            /\ t # Val(request.activity_id)
            /\ ParentOf(t) # request.activity_id
    /\ \E o \in Range(Search(NoActivity(request)).body) :
        /\ o.activities # {}
        /\ o \notin Range(response.body)

(***************************************************************************)
(* C3: the result is exactly the organizations of the snapshot that        *)
(* satisfy every active predicate: building match, case-insensitive        *)
(* substring match on the name, an activity in the closure, distance       *)
(* within the radius, building inside the box.  Violated: an activity_id   *)
(* with an empty closure filters nothing.                                  *)
(***************************************************************************)
SatisfiesActivePredicates(o, q) ==
    /\ q.building_id # None => o.building_id = Val(q.building_id)
    /\ q.name # None => ContainsIgnoreCase(o.name, Val(q.name))
    /\ q.activity_id # None
        => o.activities \cap Closure(Val(q.activity_id)) # {}
    /\ RadiusGiven(q)
        => haversine_distance(Val(q.lat), Val(q.lon), LatOf(o), LonOf(o))
             <= Val(q.radius)
    /\ BoxGiven(q)
        => /\ Val(q.lat_min) <= LatOf(o) /\ LatOf(o) <= Val(q.lat_max)
           /\ Val(q.lon_min) <= LonOf(o) /\ LonOf(o) <= Val(q.lon_max)

C3_ResultIsConjunctionOfPredicates ==
    Searched =>
        response.body =
            SelectSeq(join_building(buildings, organizations), LAMBDA o :
                SatisfiesActivePredicates(o, request))

(***************************************************************************)
(* C4: the result is a subsequence of the organizations table: the         *)
(* returned organizations keep their relative order and none appears       *)
(* twice, also when several of its activities are in the queried closure.  *)
(***************************************************************************)
RECURSIVE IsSubsequence(_, _)
IsSubsequence(s, t) ==
    IF s = <<>> THEN TRUE
    ELSE IF t = <<>> THEN FALSE
    ELSE IF Head(s) = Head(t) THEN IsSubsequence(Tail(s), Tail(t))
    ELSE IsSubsequence(s, Tail(t))

C4_ResultIsSubsequence ==
    Searched =>
        /\ IsSubsequence(response.body, organizations)
        /\ \A i, j \in DOMAIN response.body :
            response.body[i].id = response.body[j].id => i = j

\* two or more organizations are returned, one of them with two activities
\* in the queried closure
C4_Witness ==
    /\ Searched
    /\ request.activity_id # None
    /\ Len(response.body) >= 2
    /\ \E o \in Range(response.body) :
        Cardinality(o.activities \cap Closure(Val(request.activity_id))) >= 2

(***************************************************************************)
(* C5: with the other predicates fixed, the organizations returned for an  *)
(* activity d are among those returned for every activity a that has d in  *)
(* its closure.                                                            *)
(***************************************************************************)
C5_DescendantResultIsSubset ==
    (Searched /\ request.activity_id # None
              /\ ActivityExists(Val(request.activity_id)))
        => \A a \in ActivityIds :
            Val(request.activity_id) \in Closure(a)
                => Range(response.body)
                     \subseteq Range(Search([request EXCEPT
                                               !.activity_id = Some(a)]).body)

\* the queried activity has an ancestor two levels up, and an organization
\* is returned for it
C5_Witness ==
    /\ Searched
    /\ request.activity_id # None
    /\ ActivityExists(Val(request.activity_id))
    /\ response.body # <<>>
    /\ \E a \in ActivityIds :
        /\ Val(request.activity_id) \in Closure(a)
        /\ a # Val(request.activity_id)
        /\ Some(a) # ParentOf(Val(request.activity_id))

(***************************************************************************)
(* C6: an organization without activities is in no result of a search      *)
(* that gives activity_id, whether the id exists or not.  Violated for an  *)
(* id that does not exist: the handler then returns every organization.    *)
(***************************************************************************)
C6_NoActivitiesNeverReturned ==
    (Searched /\ request.activity_id # None)
        => \A o \in Range(response.body) : o.activities # {}

(***************************************************************************)
(* C7: a geo mode with a parameter missing removes no organization and     *)
(* raises no error: the response is that of the same request with every    *)
(* parameter of the mode omitted.                                          *)
(***************************************************************************)
C7_PartialGeoModeIsInactive ==
    Searched =>
        /\ ~RadiusGiven(request) => response = Search(NoRadius(request))
        /\ ~BoxGiven(request) => response = Search(NoBox(request))
        /\ (~RadiusGiven(request) \/ ~BoxGiven(request))
            => response.status = 200

\* lat and lon are given without radius, two box parameters are given
\* without the others, and organizations away from the centre are returned
C7_Witness ==
    /\ Searched
    /\ request.lat # None /\ request.lon # None /\ request.radius = None
    /\ request.lat_min # None /\ request.lat_max # None
    /\ request.lon_min = None
    /\ \E o \in Range(response.body) :
        /\ LatOf(o) # Val(request.lat) \/ LonOf(o) # Val(request.lon)
        /\ LatOf(o) > Val(request.lat_max)

(***************************************************************************)
(* C8: with lat, lon and radius given, the search returns exactly the      *)
(* organizations that the same search without the radius mode returns and  *)
(* whose building is at a distance of at most radius from (lat, lon); a    *)
(* building at exactly radius is matched.                                  *)
(***************************************************************************)
C8_RadiusIsInclusive ==
    (Searched /\ RadiusGiven(request))
        => response.body =
            SelectSeq(Search(NoRadius(request)).body, LAMBDA o :
                haversine_distance(Val(request.lat), Val(request.lon),
                                   LatOf(o), LonOf(o))
                    <= Val(request.radius))

\* an organization at exactly radius from the centre is returned and a
\* farther one is left out
C8_Witness ==
    /\ Searched
    /\ RadiusGiven(request)
    /\ Val(request.radius) > 0
    /\ \E o \in Range(response.body) :
        haversine_distance(Val(request.lat), Val(request.lon),
                           LatOf(o), LonOf(o)) = Val(request.radius)
    /\ \E o \in Range(Search(NoRadius(request)).body) :
        o \notin Range(response.body)

C11_RadiusIsMonotone ==
    (Searched /\ RadiusGiven(request))
        => \A r2 \in RadiusValues :
            Val(request.radius) <= r2
                => Range(response.body)
                     \subseteq Range(Search([request EXCEPT
                                               !.radius = Some(r2)]).body)

\* an organization is returned for a radius, and a larger radius returns
\* it and more
C11_Witness ==
    /\ Searched
    /\ RadiusGiven(request)
    /\ response.body # <<>>
    /\ \E r2 \in RadiusValues :
        /\ Val(request.radius) < r2
        /\ Len(Search([request EXCEPT !.radius = Some(r2)]).body)
             > Len(response.body)

(***************************************************************************)
(* C12: a bounding box with min > max on an axis contains no point:        *)
(* is_in_bounding_box is false for every latitude and longitude, and a     *)
(* search with such a box succeeds with no organization; the box is not    *)
(* put in order.                                                           *)
(***************************************************************************)
\* latitudes and longitudes on, inside and outside the boxes of the requests
ProbeDegrees == {0, 5, 10, 15, 20, 30}

InvertedBox(q) ==
    /\ BoxGiven(q)
    /\ \/ Val(q.lat_min) > Val(q.lat_max)
       \/ Val(q.lon_min) > Val(q.lon_max)

LookedUp == pc = "done" /\ request.kind = "get_organization"

C14_SearchNeverNotFound ==
    Searched =>
        /\ response.status = 200
        /\ IsSubsequence(response.body, organizations)

\* searches that match nothing: by a building_id no organization has, and
\* by an activity_id no activity has together with such a building_id
C14_Witness ==
    /\ Searched
    /\ request.building_id # None
    /\ \A i \in DOMAIN organizations :
        organizations[i].building_id # Val(request.building_id)
    /\ request.activity_id # None
    /\ ~ActivityExists(Val(request.activity_id))
    /\ response = [status |-> 200, body |-> <<>>]

(***************************************************************************)
(* C15: on a forest, get_all_descendants of an activity returns the ids of *)
(* its closure, each exactly once: its own id, nothing outside the         *)
(* closure, and the one-element list of its id when it has no children.    *)
(***************************************************************************)
\* the list Activity.get_all_descendants returns for the activity with id a
DescendantsOf(a) == get_all_descendants(activities, a, 0)

HasChildren(a) ==
    \E i \in DOMAIN activities : activities[i].parent_id = Some(a)

C15_DescendantsAreTheClosure ==
    Searched =>
        \A i \in DOMAIN activities :
            LET a == activities[i].id
            IN  /\ DescendantsOf(a).ok
                /\ a \in Range(DescendantsOf(a).ids)
                /\ Range(DescendantsOf(a).ids) = Closure(a)
                /\ Len(DescendantsOf(a).ids) = Cardinality(Closure(a))
                /\ ~HasChildren(a) => DescendantsOf(a).ids = <<a>>

\* the search has resolved an activity with a child that has children of
\* its own, and the table also has a leaf
C15_Witness ==
    /\ Searched
    /\ request.activity_id # None
    /\ ActivityExists(Val(request.activity_id))
    /\ \E d \in Closure(Val(request.activity_id)) :
        /\ ParentOf(d) = request.activity_id
        /\ HasChildren(d)
    /\ \E i \in DOMAIN activities : ~HasChildren(activities[i].id)

(***************************************************************************)
(* C16: the descendants of an activity include the descendants of each of  *)
(* its children.                                                           *)
(***************************************************************************)
C16_DescendantsIncludeChildrens ==
    Searched =>
        \A i, j \in DOMAIN activities :
            activities[j].parent_id = Some(activities[i].id)
                => Range(DescendantsOf(activities[j].id).ids)
                     \subseteq Range(DescendantsOf(activities[i].id).ids)

\* the search has resolved an activity with two children, one of which has
\* a child
C16_Witness ==
    /\ Searched
    /\ request.activity_id # None
    /\ Len(children(activities, Val(request.activity_id))) >= 2
    /\ \E k \in DOMAIN children(activities, Val(request.activity_id)) :
        HasChildren(children(activities, Val(request.activity_id))[k].id)

(***************************************************************************)
(* C17: the descendant lookup for an id that no activity has returns the   *)
(* empty list and raises nothing.                                          *)
(***************************************************************************)
C17_UnknownIdHasNoDescendants ==
    (Searched /\ request.activity_id # None
              /\ ~ActivityExists(Val(request.activity_id)))
        => get_activity_with_descendants(activities,
                                         Val(request.activity_id))
             = [ok |-> TRUE, ids |-> <<>>]

\* a search by an id that no activity has was answered
C17_Witness ==
    /\ Searched
    /\ request.activity_id # None
    /\ ~ActivityExists(Val(request.activity_id))
    /\ response.status = 200

(***************************************************************************)
(* C18: the descendant traversal terminates on every finite activities     *)
(* table, cyclic ones included: it ends with the closure or with a         *)
(* MalformedHierarchy failure and never recurses deeper than the table has *)
(* activities.                                                             *)
(***************************************************************************)
C18_TraversalIsBoundedOnCycles ==
    (Searched /\ request.activity_id # None)
        => /\ get_activity_with_descendants(
                  activities, Val(request.activity_id)).ok
           /\ response.status # 500

\* the tree of activities was asked for and the handler has answered
GotTree ==
    /\ pc = "done"
    /\ request.kind = "get_activities"
    /\ request.include_tree

\* the activity of row i names a parent that has no row
IsOrphan(i) ==
    /\ activities[i].parent_id # None
    /\ ~ActivityExists(Val(activities[i].parent_id))

\* the places of the returned forest that hold the node of activity id:
\* positions in the list of roots and in the child lists of the nodes
Appearances(forest, id) ==
    {<<0, k>> : k \in {k \in DOMAIN forest.roots : forest.roots[k] = id}}
      \cup UNION { {<<p, k>> :
                       k \in {k \in DOMAIN forest.children[p] :
                                 forest.children[p][k] = id}} :
                   p \in DOMAIN forest.children }

RECURSIVE ReachableFrom(_, _, _)
\* the nodes reached from the set of nodes by at most fuel child links
ReachableFrom(forest, nodes, fuel) ==
    IF fuel = 0
    THEN nodes
    ELSE ReachableFrom(forest,
             nodes \cup UNION {Range(forest.children[n]) : n \in nodes},
             fuel - 1)

\* the nodes of the returned forest
InForest(forest) ==
    ReachableFrom(forest, Range(forest.roots), NumActivities)

(***************************************************************************)
(* C19: in the forest that build_activity_tree returns every activity of   *)
(* the input appears exactly once: as a root or in the child list of       *)
(* exactly one parent.                                                     *)
(***************************************************************************)
C19_EveryActivityAppearsOnce ==
    (GotTree /\ response.status = 200)
        => \A i \in DOMAIN activities :
              /\ Cardinality(Appearances(response.body,
                                         activities[i].id)) = 1
              /\ activities[i].id \in InForest(response.body)

(***************************************************************************)
(* C20: an activity whose parent_id names an id that is not in the input   *)
(* is a root of the forest that build_activity_tree returns.               *)
(***************************************************************************)
C20_OrphanIsARoot ==
    GotTree
        => \A i \in DOMAIN activities :
              IsOrphan(i)
                  => /\ response.status = 200
                     /\ activities[i].id \in Range(response.body.roots)

RECURSIVE IdsWhere(_, _)
\* the ids of the rows of acts whose parent_id is parent, in row order
IdsWhere(acts, parent) ==
    IF acts = <<>>
    THEN <<>>
    ELSE IF Head(acts).parent_id = parent
         THEN <<Head(acts).id>> \o IdsWhere(Tail(acts), parent)
         ELSE IdsWhere(Tail(acts), parent)

\* the row of the activity id in the activities table
RowOf(id) == CHOOSE i \in DOMAIN activities : activities[i].id = id

(***************************************************************************)
(* C21: build_activity_tree keeps the input order: the roots are the       *)
(* parentless activities in input order and the children of each node are  *)
(* its child activities in input order, also when a child comes before its *)
(* parent in the input.                                                    *)
(***************************************************************************)
C21_TreeKeepsInputOrder ==
    (GotTree /\ response.status = 200)
        => /\ response.body.roots = IdsWhere(activities, None)
           /\ \A i \in DOMAIN activities :
                 response.body.children[activities[i].id]
                     = IdsWhere(activities, Some(activities[i].id))

\* a tree was returned for a table where an activity has two children that
\* both come before it in the input
C21_Witness ==
    /\ GotTree
    /\ response.status = 200
    /\ \E i \in DOMAIN activities :
        /\ Len(response.body.children[activities[i].id]) >= 2
        /\ \A k \in DOMAIN response.body.children[activities[i].id] :
              RowOf(response.body.children[activities[i].id][k]) < i

\* calculate_bounding_box was called and has come to an end
BoxCalculated == pc = "done" /\ request.kind = "calculate_bounding_box"

(***************************************************************************)
(* C22: calculate_bounding_box returns a box for every latitude in         *)
(* -90..90 and every radius >= 0: no domain failure reaches the caller,    *)
(* at a pole or at a high latitude with a large radius either.             *)
(***************************************************************************)
C22_BoundingBoxAlwaysReturned ==
    (BoxCalculated /\ request.lat \in -90 .. 90 /\ request.radius >= 0)
        => response.body.ok

\* haversine_distance was called and has returned
DistanceMeasured == pc = "done" /\ request.kind = "haversine_distance"

(***************************************************************************)
(* C23: the haversine distance of a point to itself is exactly 0, so the   *)
(* point is within every radius >= 0 of its own coordinates.               *)
(***************************************************************************)
C23_DistanceToSelfIsZero ==
    (DistanceMeasured /\ request.lat1 = request.lat2
                      /\ request.lon1 = request.lon2)
        => /\ response.body = 0
           /\ \A radius \in RadiusValues :
                 radius >= 0 => response.body <= radius

\* the distance of a point off the equator and off the prime meridian to
\* itself was measured
C23_Witness ==
    /\ DistanceMeasured
    /\ request.lat1 = request.lat2
    /\ request.lon1 = request.lon2
    /\ request.lat1 \notin {0, 90, -90}
    /\ request.lon1 # 0

\* the buildings list has answered
BuildingsListed == pc = "done" /\ request.kind = "get_buildings"

(***************************************************************************)
(* C24: the buildings list applies the geo filters: with lat, lon and      *)
(* radius all given only buildings within the radius are returned, and     *)
(* with the four bounds all given only buildings inside the box, so a      *)
(* filter that no building satisfies yields an empty list.                 *)
(***************************************************************************)
C24_BuildingsListAppliesGeoFilters ==
    BuildingsListed
        => /\ response.status = 200
           /\ \A k \in DOMAIN response.body :
                /\ RadiusGiven(request)
                    => haversine_distance(Val(request.lat), Val(request.lon),
                                          response.body[k].latitude,
                                          response.body[k].longitude)
                         <= Val(request.radius)
                /\ BoxGiven(request)
                    => /\ Val(request.lat_min) <= response.body[k].latitude
                       /\ response.body[k].latitude <= Val(request.lat_max)
                       /\ Val(request.lon_min) <= response.body[k].longitude
                       /\ response.body[k].longitude <= Val(request.lon_max)

(***************************************************************************)
(* C25: no query operation changes the snapshot: along every sequence of   *)
(* queries the buildings, the activities with their parent links and the   *)
(* organizations with their activity links stay as they were.              *)
(***************************************************************************)
C25_QueriesLeaveSnapshotUnchanged ==
    [][/\ buildings' = buildings
       /\ activities' = activities
       /\ organizations' = organizations]_vars

\* a tree with nested children was assembled over rows that have parent
\* links and organizations that have activity links
C25_Witness ==
    /\ GotTree
    /\ response.status = 200
    /\ \E i \in DOMAIN activities :
          response.body.children[activities[i].id] # <<>>
    /\ \E i \in DOMAIN activities : activities[i].parent_id # None
    /\ \E k \in DOMAIN organizations : organizations[k].activities # {}

\* the organization names a building that has a row
HasBuilding(o) == \E i \in DOMAIN buildings : buildings[i].id = o.building_id

(***************************************************************************)
(* C27: every organization a search returns has a building that exists in  *)
(* the snapshot; an organization whose building_id matches no building is  *)
(* left out of the result and the search does not fail over it.            *)
(***************************************************************************)
C27_ReturnedOrganizationsHaveBuildings ==
    Searched
        => /\ response.status = 200
           /\ \A k \in DOMAIN response.body : HasBuilding(response.body[k])

\* a search with a radius has returned organizations from a table that
\* holds an organization without a building
C27_Witness ==
    /\ Searched
    /\ RadiusGiven(request)
    /\ request.building_id = None /\ request.activity_id = None
    /\ request.name = None
    /\ response.status = 200
    /\ response.body # <<>>
    /\ \E k \in DOMAIN organizations : ~HasBuilding(organizations[k])

(***************************************************************************)
(* C28: when the radius mode and the box mode are both fully given, both   *)
(* are applied: the search succeeds and returns exactly the organizations  *)
(* that the radius-only search and the box-only search with the same other *)
(* predicates both return.                                                 *)
(***************************************************************************)
C28_BothGeoModesIntersect ==
    (Searched /\ RadiusGiven(request) /\ BoxGiven(request))
        => /\ response.status = 200
           /\ Range(response.body)
                = Range(Search(NoBox(request)).body)
                    \cap Range(Search(NoRadius(request)).body)
           /\ \A k \in DOMAIN response.body :
                /\ haversine_distance(Val(request.lat), Val(request.lon),
                                      LatOf(response.body[k]),
                                      LonOf(response.body[k]))
                     <= Val(request.radius)
                /\ Val(request.lat_min) <= LatOf(response.body[k])
                /\ LatOf(response.body[k]) <= Val(request.lat_max)
                /\ Val(request.lon_min) <= LonOf(response.body[k])
                /\ LonOf(response.body[k]) <= Val(request.lon_max)

\* a search with both modes has returned organizations, fewer than the
\* radius alone returns
C28_Witness ==
    /\ Searched
    /\ RadiusGiven(request)
    /\ BoxGiven(request)
    /\ response.body # <<>>
    /\ Range(Search(NoBox(request)).body) # Range(response.body)

(***************************************************************************)
(* C29: build_activity_tree comes to an end with a forest on every finite  *)
(* input, with orphans, a self-parent or a longer cycle as well: it links  *)
(* in single passes and never follows child links without bound.           *)
(***************************************************************************)
C29_TreeAssemblyTerminates ==
    GotTree
        => /\ build_activity_tree(activities).ok
           /\ response.status = 200

\* a tree assembly is taking the step that answers the request
TreeStep ==
    /\ pc = "request"
    /\ request.kind = "get_activities"
    /\ request.include_tree
    /\ pc' = "done"

\* the number of rows whose parent is the activity id
NumChildRows(id) ==
    Cardinality({i \in DOMAIN activities : activities[i].parent_id = Some(id)})

(***************************************************************************)
(* C30: every call of build_activity_tree builds fresh nodes and resets    *)
(* their children: a call returns the forest that any other call on the    *)
(* same rows returns, a child list holds one entry for each child row and  *)
(* no entry twice, and the rows are left as they were.                     *)
(***************************************************************************)
C30_TreeAssemblyIsFresh ==
    [][TreeStep
        => /\ activities' = activities
           /\ response'.status = 200
           /\ response'.body.roots = build_activity_tree(activities').roots
           /\ response'.body.children
                = build_activity_tree(activities').children
           /\ \A i \in DOMAIN activities :
                LET kids == response'.body.children[activities[i].id]
                IN  /\ Len(kids) = NumChildRows(activities[i].id)
                    /\ \A j, k \in DOMAIN kids : kids[j] = kids[k] => j = k]_vars

\* a tree was returned in which a node has two children
C30_Witness ==
    /\ GotTree
    /\ response.status = 200
    /\ \E i \in DOMAIN activities :
          /\ Len(response.body.children[activities[i].id]) >= 2
          /\ NumChildRows(activities[i].id) >= 2

\* the response to the request r when it is served alone on the snapshot
Alone(r) ==
    CASE r.kind = "get_organizations"
           -> get_organizations(buildings, activities, organizations, r)
      [] r.kind = "get_organization"
           -> get_organization(buildings, organizations,
                               Val(r.organization_id))
      [] r.kind = "get_buildings" -> get_buildings(buildings)
      [] r.kind = "get_activities"
           -> get_activities(activities, r.include_tree)

(***************************************************************************)
(* C26: queries running at the same time on one snapshot do not interfere: *)
(* under every interleaving of their steps each query returns what it      *)
(* returns when it runs alone on that snapshot.                            *)
(***************************************************************************)
C26_ConcurrentQueriesDoNotInterfere ==
    \A q \in DOMAIN running :
        running[q].pc = "done"
            => running[q].response = Alone(running[q].request)

\* a tree assembly has returned a forest with nested children while
\* another one is in the middle of its linking loop
C26_Witness ==
    \E p, q \in DOMAIN running :
        /\ p # q
        /\ running[p].pc = "done"
        /\ running[p].request.kind = "get_activities"
        /\ running[p].request.include_tree
        /\ \E id \in DOMAIN running[p].response.body.children :
              running[p].response.body.children[id] # <<>>
        /\ running[q].pc = "linking"
        /\ running[q].rest # <<>>
        /\ Len(running[q].rest) < Len(activities)

====
